---- MODULE Spec2Model ----
(***************************************************************************)
(* Model of src/main.py: the rating functions (performance_ratio, the      *)
(* derived columns, puissance_combattant, proba_victoire), one bout        *)
(* (simuler_combat), one single-elimination tournament (simuler_tournoi)   *)
(* and the Monte Carlo loop that tallies the champions.                    *)
(*                                                                         *)
(* Numbers.  A pandas cell is a float; it is modelled as an exact fraction *)
(* <<n, d>> with d > 0 in lowest terms, NaN being <<0, 0>> and Python's    *)
(* None being <<0, -1>>.  Every record of the model is small enough for    *)
(* the float computation of the source to order the scores as the exact    *)
(* fractions do.                                                           *)
(***************************************************************************)
EXTENDS Integers, Sequences, FiniteSets

\* ------------------------------------------------------------------------
\* Bounds of the model
\* ------------------------------------------------------------------------
\* largest roster handed to one call of simuler_tournoi
MaxN == 5
\* largest roster of a call of simuler_tournoi followed to its end under
\* fairness
MaxNEquitable == 4
\* largest roster of the Monte Carlo loop
MaxAggN == 3
\* largest number of competitors of a roster whose record is unknown
MaxInconnus == 2
\* largest wins / losses / draws value fed to performance_ratio
MaxVal == 3
\* number of tournaments the Monte Carlo loop runs (1000 in main.py:336,
\* scaled down)
MaxRuns == 2

\* ------------------------------------------------------------------------
\* Floats as exact fractions
\* ------------------------------------------------------------------------
NaN == <<0, 0>>
None == <<0, -1>>

IsNaN(x) == x[2] = 0
IsNone(x) == x[2] = -1

Abs(n) == IF n < 0 THEN -n ELSE n

\* Each operation binds its operands once (p \in {<<x, y>>}) before using
\* them, so that an operand is evaluated once however often it is used.
RECURSIVE GCD(_, _)
GCD(a, b) ==
    IF b = 0 THEN a
    ELSE CHOOSE g \in {GCD(p[1], p[2]) : p \in {<<b, a % b>>}} : TRUE

\* the fraction n/d (d # 0) in lowest terms with a positive denominator
Frac(n, d) ==
    LET f(p) == LET g == GCD(Abs(p[1]), Abs(p[2]))
                    s == IF p[2] < 0 THEN -1 ELSE 1
                IN  <<(s * p[1]) \div g, (s * p[2]) \div g>>
    IN  CHOOSE r \in {f(p) : p \in {<<n, d>>}} : TRUE

FromInt(n) == <<n, 1>>

\* float arithmetic: NaN is absorbing
FAdd(x, y) ==
    LET f(p) == IF IsNaN(p[1]) \/ IsNaN(p[2]) THEN NaN
                ELSE Frac(p[1][1] * p[2][2] + p[2][1] * p[1][2], p[1][2] * p[2][2])
    IN  CHOOSE r \in {f(p) : p \in {<<x, y>>}} : TRUE

FSub(x, y) ==
    LET f(p) == IF IsNaN(p[1]) \/ IsNaN(p[2]) THEN NaN
                ELSE Frac(p[1][1] * p[2][2] - p[2][1] * p[1][2], p[1][2] * p[2][2])
    IN  CHOOSE r \in {f(p) : p \in {<<x, y>>}} : TRUE

FMul(x, y) ==
    LET f(p) == IF IsNaN(p[1]) \/ IsNaN(p[2]) THEN NaN
                ELSE Frac(p[1][1] * p[2][1], p[1][2] * p[2][2])
    IN  CHOOSE r \in {f(p) : p \in {<<x, y>>}} : TRUE

\* x / y; the model never divides by zero (the divisors are Nb_combats + 10,
\* total + 2c and a rank > 0)
FDiv(x, y) ==
    LET f(p) == IF IsNaN(p[1]) \/ IsNaN(p[2]) THEN NaN
                ELSE Frac(p[1][1] * p[2][2], p[1][2] * p[2][1])
    IN  CHOOSE r \in {f(p) : p \in {<<x, y>>}} : TRUE

\* x > y on floats: any comparison with NaN is False
FGt(x, y) ==
    \E p \in {<<x, y>>} :
        /\ ~IsNaN(p[1])
        /\ ~IsNaN(p[2])
        /\ p[1][1] * p[2][2] > p[2][1] * p[1][2]

\* x <= y on floats: any comparison with NaN is False
FLe(x, y) ==
    \E p \in {<<x, y>>} :
        /\ ~IsNaN(p[1])
        /\ ~IsNaN(p[2])
        /\ p[1][1] * p[2][2] <= p[2][1] * p[1][2]

\* pd.isna
isna(x) == IsNaN(x) \/ IsNone(x)

\* int(x) of a known float: truncation toward zero
int(x) == IF x[1] >= 0 THEN x[1] \div x[2] ELSE -((-x[1]) \div x[2])

\* ------------------------------------------------------------------------
\* Parameters of the model (main.py:8-10, 129-130)
\* ------------------------------------------------------------------------
ALPHA == <<1, 2>>
BETA == <<1, 2>>
K == 8
DRAW_WEIGHT == <<1, 2>>
SMOOTHING_C == 2

\* ------------------------------------------------------------------------
\* Rating functions
\* ------------------------------------------------------------------------
\* variant: the smoothing is left out of the denominator
performance_ratio_total_brut(wins, losses, draws) ==
    IF isna(wins) \/ isna(losses) \/ isna(draws) THEN None
    ELSE LET w == int(wins)
             l == int(losses)
             d == int(draws)
             total == w + l + d
         IN  IF total = 0 THEN <<1, 2>>
             ELSE FDiv(FAdd(FAdd(FromInt(w), FMul(DRAW_WEIGHT, FromInt(d))),
                            FromInt(SMOOTHING_C)),
                       FromInt(total))

performance_ratio(wins, losses, draws) ==
    IF isna(wins) \/ isna(losses) \/ isna(draws) THEN None
    ELSE LET w == int(wins)
             l == int(losses)
             d == int(draws)
             total == w + l + d
         IN  IF total = 0 THEN <<1, 2>>
             ELSE FDiv(FAdd(FAdd(FromInt(w), FMul(DRAW_WEIGHT, FromInt(d))),
                            FromInt(SMOOTHING_C)),
                       FromInt(total + 2 * SMOOTHING_C))

\* ------------------------------------------------------------------------
\* The roster and its derived columns (main.py:156-197)
\* ------------------------------------------------------------------------
\* records of competitors whose wins, losses and draws are all known
FichesConnues ==
    << [Rang |-> <<1, 1>>, Wins |-> <<3, 1>>, Losses |-> <<0, 1>>, Draws |-> <<0, 1>>],
       [Rang |-> NaN,      Wins |-> <<0, 1>>, Losses |-> <<0, 1>>, Draws |-> <<0, 1>>],
       [Rang |-> <<2, 1>>, Wins |-> <<1, 1>>, Losses |-> <<2, 1>>, Draws |-> <<1, 1>>] >>

\* records of competitors with an empty wins, losses or draws cell
FichesInconnues ==
    << [Rang |-> <<1, 1>>, Wins |-> NaN,      Losses |-> <<0, 1>>, Draws |-> <<0, 1>>],
       [Rang |-> NaN,      Wins |-> <<2, 1>>, Losses |-> NaN,      Draws |-> NaN],
       [Rang |-> <<3, 1>>, Wins |-> <<1, 1>>, Losses |-> <<1, 1>>, Draws |-> NaN] >>

\* the record of competitor nom in a roster whose first u competitors have an
\* unknown record
Fiche(nom, u) ==
    IF nom <= u THEN FichesInconnues[((nom - 1) % Len(FichesInconnues)) + 1]
    ELSE FichesConnues[((nom - 1) % Len(FichesConnues)) + 1]

\* df.apply gathers the returned values in a float column: None becomes NaN
ColonneRatio(v) == IF IsNone(v) THEN NaN ELSE v

\* one row of df after the derived columns have been added
Ligne(nom, f) ==
    LET nb == FAdd(FAdd(f.Wins, f.Losses), f.Draws)
        ratio == ColonneRatio(performance_ratio(f.Wins, f.Losses, f.Draws))
        fiab == FDiv(nb, FAdd(nb, FromInt(10)))
        eff == FAdd(<<1, 2>>, FMul(fiab, FSub(ratio, <<1, 2>>)))
    IN  [Combattant |-> nom, Rang |-> f.Rang,
         Wins |-> f.Wins, Losses |-> f.Losses, Draws |-> f.Draws,
         Nb_combats |-> nb, Ratio |-> ratio,
         Fiabilite_ratio |-> fiab, Ratio_effectif |-> eff]

\* the roster of n competitors named 1..n, the first u of unknown record
Roster(n, u) == [nom \in 1..n |-> Ligne(nom, Fiche(nom, u))]

Min(a, b) == IF a < b THEN a ELSE b

\* ------------------------------------------------------------------------
\* Matchup model (main.py:205-222, 291-302)
\* ------------------------------------------------------------------------
puissance_combattant(row) ==
    LET score0 == FromInt(0)
        score1 == IF ~isna(row.Rang) /\ FGt(row.Rang, FromInt(0))
                  THEN FAdd(score0, FMul(ALPHA, FDiv(FromInt(1), row.Rang)))
                  ELSE score0
    IN  FAdd(score1, FMul(BETA, row.Ratio_effectif))

\* The probability 1 / (1 + exp(x)) is modelled by its exponent
\* x = -k * (score_a - score_b): the probability is NaN iff x is, and
\* decreases strictly with x.  Scores lie in [0, 1], hence |x| <= K.
proba_victoire(score_a, score_b) ==
    FMul(FromInt(-K), FSub(score_a, score_b))

\* values of random.random(): 0.0, 0.5 and the largest float below 1
Tirages == {"zero", "demi", "max"}

\* t < p for the draw t and the probability p of exponent x
\*   0.0 < p       for every p that is not NaN (p >= 1/(1+e^K) > 0)
\*   0.5 < p       iff exp(x) < 1 iff x < 0
\*   1 - 2^-53 < p never (p <= 1/(1+e^-K) < 1 - 2^-53)
\* variant: t <= p
InferieurOuEgal(t, p) ==
    IF IsNaN(p) THEN FALSE
    ELSE CASE t = "zero" -> TRUE
           [] t = "demi" -> FLe(p, FromInt(0))
           [] t = "max" -> FALSE

Inferieur(t, p) ==
    IF IsNaN(p) THEN FALSE
    ELSE CASE t = "zero" -> TRUE
           [] t = "demi" -> FGt(FromInt(0), p)
           [] t = "max" -> FALSE

\* variant: a bout whose probability is NaN has no winner
simuler_combat_sans_vainqueur(row_a, row_b, t) ==
    LET score_a == puissance_combattant(row_a)
        score_b == puissance_combattant(row_b)
        p_a == proba_victoire(score_a, score_b)
    IN  IF IsNaN(p_a) THEN 0
        ELSE IF Inferieur(t, p_a) THEN row_a.Combattant ELSE row_b.Combattant

\* t is the value random.random() returns
simuler_combat(row_a, row_b, t) ==
    LET score_a == puissance_combattant(row_a)
        score_b == puissance_combattant(row_b)
        p_a == proba_victoire(score_a, score_b)
    IN  IF Inferieur(t, p_a) THEN row_a.Combattant ELSE row_b.Combattant

\* ------------------------------------------------------------------------
\* List and frame helpers
\* ------------------------------------------------------------------------
\* df["Combattant"].tolist(): a new list of the names, in row order
tolist(d) == [k \in 1..Len(d) |-> d[k].Combattant]

Noms(d) == {d[k].Combattant : k \in 1..Len(d)}

\* lookup.loc[nom] on the frame indexed by name
loc(d, nom) == d[CHOOSE k \in 1..Len(d) : d[k].Combattant = nom]

\* variant: the last element is read and left in the list
pop_sans_retrait(l) == [reste |-> l, val |-> l[Len(l)]]

\* variant: pop(0), the first element is removed
pop_premier(l) == [reste |-> SubSeq(l, 2, Len(l)), val |-> l[1]]

\* list.pop(): the list without its last element, and that element
pop(l) == [reste |-> SubSeq(l, 1, Len(l) - 1), val |-> l[Len(l)]]

\* variant: insert(0, x)
insert_en_tete(l, x) == <<x>> \o l

\* list.append
append(l, x) == Append(l, x)

\* the arrangements of the elements of S in a sequence
RECURSIVE Arrangements(_)
Arrangements(S) ==
    IF S = {} THEN {<<>>}
    ELSE UNION {{<<x>> \o p : p \in Arrangements(S \ {x})} : x \in S}

\* the orders random.shuffle can leave the list in
shuffle(l) ==
    {[k \in 1..Len(l) |-> l[p[k]]] : p \in Arrangements(1..Len(l))}

\* variant: while len(combattants) > 2
ResteATourner_plus_de_2(l) == Len(l) > 2

\* while len(combattants) > 1
ResteATourner(l) == Len(l) > 1

\* variant: every champion is counted once
Counter_distincts(l) == [x \in {l[k] : k \in 1..Len(l)} |-> 1]

\* Counter(resultats)
Counter(l) ==
    [x \in {l[k] : k \in 1..Len(l)} |-> Cardinality({k \in 1..Len(l) : l[k] = x})]

N_SIMULATIONS == MaxRuns

\* ------------------------------------------------------------------------
\* State
\* ------------------------------------------------------------------------
VARIABLES
    df,             \* the roster with its derived columns
    pc,             \* position in the script / in simuler_tournoi
    combattants,    \* simuler_tournoi: competitors still in the tournament
    prochain_tour,  \* simuler_tournoi: competitors of the next round
    i,              \* simuler_tournoi: index of the for loop (0-based)
    vainqueur,      \* value returned by simuler_tournoi (0: none yet)
    resultats,      \* champions of the runs done so far
    compteur,       \* Counter(resultats)
    debut_tour,     \* history: combattants when the current round began
    journal,        \* history: bouts of the current round
    tirage,         \* history: value of random.random() in the last bout
    nb_tours,       \* history: rounds completed in the current run
    nb_combats,     \* history: bouts simulated in the current run
    exempts,        \* history: competitors given a bye in the current run
    entree,         \* performance_ratio: the wins, losses, draws passed
    ratio           \* performance_ratio: the value returned

vars == <<df, pc, combattants, prochain_tour, i, vainqueur, resultats, compteur,
          debut_tour, journal, tirage, nb_tours, nb_combats, exempts, entree, ratio>>

locales == <<combattants, prochain_tour, i>>
histoire == <<debut_tour, journal, tirage, nb_tours, nb_combats, exempts>>
notation == <<entree, ratio>>

Aucun == 0
CompteurVide == [x \in {} |-> 0]
PasDEntree == <<NaN, NaN, NaN>>
PasDeTirage == "aucun"

\* the state at position p of the script, before anything has run, with
\* roster d and performance_ratio arguments e
Depart(p, d, e) ==
    /\ pc = p
    /\ df = d
    /\ entree = e
    /\ ratio = NaN
    /\ combattants = <<>>
    /\ prochain_tour = <<>>
    /\ i = 0
    /\ vainqueur = Aucun
    /\ resultats = <<>>
    /\ compteur = CompteurVide
    /\ debut_tour = <<>>
    /\ journal = <<>>
    /\ tirage = PasDeTirage
    /\ nb_tours = 0
    /\ nb_combats = 0
    /\ exempts = <<>>

\* ------------------------------------------------------------------------
\* simuler_tournoi (main.py:306-333)
\* ------------------------------------------------------------------------
\* variant: the names column itself is shuffled, in place
Melanger_en_place ==
    /\ pc = "tournoi"
    /\ combattants' \in shuffle(tolist(df))
    /\ df' = [k \in 1..Len(df) |-> [df[k] EXCEPT !.Combattant = combattants'[k]]]
    /\ prochain_tour' = <<>>
    /\ i' = 0
    /\ debut_tour' = <<>>
    /\ journal' = <<>>
    /\ tirage' = PasDeTirage
    /\ nb_tours' = 0
    /\ nb_combats' = 0
    /\ exempts' = <<>>
    /\ pc' = "while"
    /\ UNCHANGED <<vainqueur, resultats, compteur, notation>>

\* lines 308-312: copy the names, shuffle the copy
Melanger ==
    /\ pc = "tournoi"
    /\ combattants' \in shuffle(tolist(df))
    /\ prochain_tour' = <<>>
    /\ i' = 0
    /\ debut_tour' = <<>>
    /\ journal' = <<>>
    /\ tirage' = PasDeTirage
    /\ nb_tours' = 0
    /\ nb_combats' = 0
    /\ exempts' = <<>>
    /\ pc' = "while"
    /\ UNCHANGED <<df, vainqueur, resultats, compteur, notation>>

\* lines 314-319: the while test, a new round, the bye
TourDebut ==
    /\ pc = "while"
    /\ ResteATourner(combattants)
    /\ debut_tour' = combattants
    /\ journal' = <<>>
    /\ tirage' = PasDeTirage
    /\ IF Len(combattants) % 2 = 1
       THEN /\ prochain_tour' = append(<<>>, pop(combattants).val)
            /\ combattants' = pop(combattants).reste
            /\ exempts' = Append(exempts, pop(combattants).val)
       ELSE /\ prochain_tour' = <<>>
            /\ UNCHANGED <<combattants, exempts>>
    /\ i' = 0
    /\ pc' = "for"
    /\ UNCHANGED <<df, vainqueur, resultats, compteur, nb_tours, nb_combats, notation>>

\* lines 321-329: one iteration of the for loop, one bout
Combat ==
    /\ pc = "for"
    /\ i < Len(combattants)
    /\ IF \/ i + 2 > Len(combattants)
          \/ {combattants[i + 1], combattants[i + 2]} \ Noms(df) # {}
       THEN \* combattants[i + 1]: IndexError; lookup.loc[a]: KeyError
            /\ pc' = "erreur"
            /\ UNCHANGED <<prochain_tour, i, journal, tirage, nb_combats>>
       ELSE \E t \in Tirages :
              LET a == combattants[i + 1]
                  b == combattants[i + 2]
                  v == simuler_combat(loc(df, a), loc(df, b), t)
              IN  /\ prochain_tour' = append(prochain_tour, v)
                  /\ journal' = Append(journal, [a |-> a, b |-> b, vainqueur |-> v])
                  /\ tirage' = t
                  /\ nb_combats' = nb_combats + 1
                  /\ i' = i + 2
                  /\ pc' = "for"
    /\ UNCHANGED <<df, combattants, vainqueur, resultats, compteur,
                   debut_tour, nb_tours, exempts, notation>>

\* line 331: the for loop is exhausted, the next round becomes the current one
TourFin ==
    /\ pc = "for"
    /\ i >= Len(combattants)
    /\ combattants' = prochain_tour
    /\ nb_tours' = nb_tours + 1
    /\ pc' = "while"
    /\ UNCHANGED <<df, prochain_tour, i, vainqueur, resultats, compteur,
                   debut_tour, journal, tirage, nb_combats, exempts, notation>>

\* variant: an empty list returns no champion instead of raising
Retour_sans_erreur ==
    /\ pc = "while"
    /\ ~ResteATourner(combattants)
    /\ vainqueur' = IF Len(combattants) = 0 THEN Aucun ELSE combattants[1]
    /\ pc' = "retourne"
    /\ UNCHANGED <<df, locales, resultats, compteur, histoire, notation>>

\* line 333: the while test fails, combattants[0] is returned
Retour ==
    /\ pc = "while"
    /\ ~ResteATourner(combattants)
    /\ IF Len(combattants) = 0
       THEN \* combattants[0]: IndexError
            /\ pc' = "erreur"
            /\ UNCHANGED vainqueur
       ELSE /\ vainqueur' = combattants[1]
            /\ pc' = "retourne"
    /\ UNCHANGED <<df, locales, resultats, compteur, histoire, notation>>

NextTournoi == Melanger \/ TourDebut \/ Combat \/ TourFin \/ Retour

\* One call of simuler_tournoi(df), for any frame that carries the derived
\* columns: 0..MaxN competitors, the first u of them with an empty wins,
\* losses or draws cell.
InitTournoi ==
    \E n \in 0..MaxN : \E u \in 0..Min(n, MaxInconnus) :
        Depart("tournoi", Roster(n, u), PasDEntree)

SpecTournoi == InitTournoi /\ [][NextTournoi]_vars

\* The same call followed to its end: Python runs the statements of
\* simuler_tournoi one after the other without stopping, which is weak
\* fairness of its steps.
InitEquitable ==
    \E n \in 0..MaxNEquitable : \E u \in 0..Min(n, MaxInconnus) :
        Depart("tournoi", Roster(n, u), PasDEntree)

SpecTournoiEquitable ==
    InitEquitable /\ [][NextTournoi]_vars /\ WF_vars(NextTournoi)

\* ------------------------------------------------------------------------
\* The Monte Carlo loop (main.py:336-350)
\* ------------------------------------------------------------------------
\* line 341: the loop has runs left and calls simuler_tournoi(df)
Appel ==
    /\ pc = "boucle"
    /\ Len(resultats) < N_SIMULATIONS
    /\ pc' = "tournoi"
    /\ UNCHANGED <<df, locales, vainqueur, resultats, compteur, histoire, notation>>

\* lines 341-342: the call has returned, its champion is appended; the
\* locals of the call are gone
Ajouter ==
    /\ pc = "retourne"
    /\ resultats' = append(resultats, vainqueur)
    /\ combattants' = <<>>
    /\ prochain_tour' = <<>>
    /\ i' = 0
    /\ debut_tour' = <<>>
    /\ journal' = <<>>
    /\ tirage' = PasDeTirage
    /\ nb_tours' = 0
    /\ nb_combats' = 0
    /\ exempts' = <<>>
    /\ pc' = "boucle"
    /\ UNCHANGED <<df, vainqueur, compteur, notation>>

\* line 350: the loop is over, the champions are counted
Compter ==
    /\ pc = "boucle"
    /\ Len(resultats) >= N_SIMULATIONS
    /\ compteur' = Counter(resultats)
    /\ pc' = "analyse"
    /\ UNCHANGED <<df, locales, vainqueur, resultats, histoire, notation>>

Next == Appel \/ NextTournoi \/ Ajouter \/ Compter

\* The script at line 336, for the rosters it is sure to bring there: at
\* least one competitor, and at least one competitor of known record.
Init ==
    \E n \in 1..MaxAggN : \E u \in 0..Min(n - 1, MaxInconnus) :
        Depart("boucle", Roster(n, u), PasDEntree)

Spec == Init /\ [][Next]_vars

\* ------------------------------------------------------------------------
\* performance_ratio applied to one record (main.py:133-152, 159-166)
\* ------------------------------------------------------------------------
\* a wins, losses or draws cell: empty, or a count
Cellules == {NaN} \cup {FromInt(k) : k \in 0..MaxVal}

CalculRatio ==
    /\ pc = "ratio"
    /\ ratio' = performance_ratio(entree[1], entree[2], entree[3])
    /\ pc' = "ratio_rendu"
    /\ UNCHANGED <<df, locales, vainqueur, resultats, compteur, histoire, entree>>

NextRatio == CalculRatio

InitRatio ==
    \E e \in Cellules \X Cellules \X Cellules : Depart("ratio", <<>>, e)

SpecRatio == InitRatio /\ [][NextRatio]_vars

\* ------------------------------------------------------------------------
\* Properties
\* ------------------------------------------------------------------------
RECURSIVE Log2(_)
Log2(n) == IF n <= 1 THEN 0 ELSE 1 + Log2(n \div 2)

RECURSIVE EstPuissanceDe2(_)
EstPuissanceDe2(n) ==
    IF n = 1 THEN TRUE
    ELSE IF n < 1 \/ n % 2 = 1 THEN FALSE
    ELSE EstPuissanceDe2(n \div 2)

RECURSIVE Somme(_)
Somme(f) ==
    IF DOMAIN f = {} THEN 0
    ELSE LET x == CHOOSE y \in DOMAIN f : TRUE
         IN  f[x] + Somme([y \in DOMAIN f \ {x} |-> f[y]])

\* the competitor's wins, losses or draws cell is empty
FicheInconnue(nom) ==
    LET r == loc(df, nom)
    IN  IsNaN(r.Wins) \/ IsNaN(r.Losses) \/ IsNaN(r.Draws)

UnChampion ==
    /\ pc = "retourne"
    /\ Len(combattants) = 1
    /\ vainqueur = combattants[1]
    /\ vainqueur \in Noms(df)

\* C1: for every roster of N >= 1 competitors, every shuffle and every
\* sequence of draws, simuler_tournoi terminates, and in its terminal state
\* exactly one competitor remains, the champion, a member of the roster.
C1_TermineAvecUnChampion == (Len(df) >= 1) => <>[]UnChampion

C1_Witness ==
    /\ UnChampion
    /\ Len(df) = MaxNEquitable
    /\ nb_tours = 2

\* C2: once the loop has run simuler_tournoi N_SIMULATIONS times, the win
\* counts of the tally sum to N_SIMULATIONS and every competitor with a
\* positive count is in the roster.
C2_SommeDesVictoires ==
    pc = "analyse" =>
        /\ Somme(compteur) = N_SIMULATIONS
        /\ \A x \in DOMAIN compteur : compteur[x] > 0 => x \in Noms(df)

C2_Witness ==
    /\ pc = "analyse"
    /\ Len(resultats) = N_SIMULATIONS
    /\ \E x \in DOMAIN compteur : compteur[x] >= 2

\* C3: when the size of the roster is a power of 2, a run that returns its
\* champion has executed exactly log2(N) rounds, none with a bye.
C3_ToursPuissanceDe2 ==
    (pc = "retourne" /\ EstPuissanceDe2(Len(df))) =>
        /\ nb_tours = Log2(Len(df))
        /\ exempts = <<>>

C3_Witness ==
    /\ pc = "retourne"
    /\ Len(df) = 4
    /\ nb_tours = 2

\* C4: in a round of n > 1 competitors the bouts are the sequential pairs
\* (0 vs 1, 2 vs 3, ...) of the round's list, floor(n/2) of them once the
\* round is over; one competitor advances without a bout iff n is odd; each
\* bout winner advances.  A run on N competitors plays N - 1 bouts; a roster
\* of 3 completes in 2 rounds and 2 bouts with one bye, in the first round.
C4_Appariements ==
    /\ pc = "for" =>
        LET n == Len(debut_tour)
            bye == Len(prochain_tour) - Len(journal)
        IN  /\ n > 1
            /\ bye = n % 2
            /\ bye = 1 => prochain_tour[1] = debut_tour[n]
            /\ \A k \in 1..Len(journal) :
                 /\ journal[k].a = debut_tour[2 * k - 1]
                 /\ journal[k].b = debut_tour[2 * k]
                 /\ prochain_tour[bye + k] = journal[k].vainqueur
            /\ i >= Len(combattants) => Len(journal) = n \div 2
    /\ pc = "retourne" =>
        /\ nb_combats = Len(df) - 1
        /\ Len(df) = 3 => nb_tours = 2 /\ nb_combats = 2 /\ Len(exempts) = 1
    /\ (Len(df) = 3 /\ pc = "for" /\ nb_tours = 0) => Len(exempts) = 1
    /\ (Len(df) = 3 /\ pc = "for" /\ nb_tours = 1) =>
            Len(exempts) = 1 /\ Len(debut_tour) = 2

C4_Witness ==
    /\ pc = "for"
    /\ Len(debut_tour) = 5
    /\ Len(journal) = 2
    /\ i >= Len(combattants)

\* C5: a tournament of zero competitors ends in an error and returns no
\* champion; a tournament of one competitor returns that competitor without
\* simulating a bout.
C5_RosterVideOuSeul ==
    /\ (Len(df) = 0) => <>[](pc = "erreur" /\ vainqueur = Aucun)
    /\ (Len(df) = 1) =>
           <>[](pc = "retourne" /\ Len(df) = 1 /\ vainqueur = df[1].Combattant
                /\ nb_combats = 0 /\ nb_tours = 0)

C5_Witness ==
    /\ Len(df) = 0
    /\ pc = "erreur"

\* C6: with competitors of unknown wins, losses or draws in the roster, no
\* run ends in an error: each bout involving such a competitor is won by one
\* of the two, and the run reaches its terminal state with one champion.
C6_FichesInconnues ==
    ((\E nom \in Noms(df) : FicheInconnue(nom))) =>
        /\ [](\A k \in 1..Len(journal) :
                (FicheInconnue(journal[k].a) \/ FicheInconnue(journal[k].b))
                    => journal[k].vainqueur \in {journal[k].a, journal[k].b})
        /\ [](pc # "erreur")
        /\ <>[]UnChampion

C6_Witness ==
    /\ UnChampion
    /\ FicheInconnue(vainqueur)
    /\ nb_combats >= 2

\* C7: the simulation never changes the roster, and every run starts from a
\* permutation of the full roster.
C7_RosterIntact ==
    [][/\ df' = df
       /\ pc = "tournoi" =>
            /\ Len(combattants') = Len(df)
            /\ {combattants'[k] : k \in 1..Len(combattants')} = Noms(df)]_vars

C7_Witness ==
    /\ pc = "while"
    /\ nb_tours = 0
    /\ Len(resultats) = 1
    /\ Len(combattants) = MaxAggN
    /\ Len(df) = MaxAggN

\* C8: for known non-negative integer wins, losses and draws,
\* performance_ratio lies in [0, 1], and is exactly 0.5 when
\* wins + losses + draws = 0.
C8_RatioBorne ==
    (pc = "ratio_rendu" /\ \A k \in 1..3 : ~IsNaN(entree[k])) =>
        /\ ~isna(ratio)
        /\ FLe(FromInt(0), ratio)
        /\ FLe(ratio, FromInt(1))
        /\ (entree[1][1] + entree[2][1] + entree[3][1] = 0) => ratio = <<1, 2>>

C8_Witness ==
    /\ pc = "ratio_rendu"
    /\ entree = <<FromInt(MaxVal), FromInt(0), FromInt(0)>>
    /\ FGt(ratio, <<1, 2>>)

\* the draw is strictly below the probability that a beats b, the logistic
\* function of K * (score_a - score_b): 0 is below every probability, 1/2
\* is below it iff score_a > score_b, the largest float under 1 never is;
\* nothing is below a NaN probability.
TirageSousProba(t, a, b) ==
    LET score_a == puissance_combattant(loc(df, a))
        score_b == puissance_combattant(loc(df, b))
    IN  /\ ~IsNaN(score_a)
        /\ ~IsNaN(score_b)
        /\ \/ t = "zero"
           \/ t = "demi" /\ K > 0 /\ FGt(score_a, score_b)

\* C9: every bout between a and b has exactly one winner, a or b: a iff the
\* draw is strictly less than the probability that a beats b, b otherwise.
C9_UnVainqueurParCombat ==
    /\ \A k \in 1..Len(journal) :
          /\ journal[k].a # journal[k].b
          /\ journal[k].vainqueur \in {journal[k].a, journal[k].b}
    /\ (pc = "for" /\ Len(journal) >= 1) =>
          LET c == journal[Len(journal)]
          IN  /\ tirage \in Tirages
              /\ c.vainqueur = c.a <=> TirageSousProba(tirage, c.a, c.b)

C9_Witness ==
    /\ pc = "for"
    /\ Len(journal) = 2
    /\ tirage = "demi"
    /\ journal[2].vainqueur = journal[2].a

\* C10: within one run no competitor is given more than one bye: a
\* competitor that has had a bye and is still in the tournament sits at
\* index 0 or 1 at the start of every later round.
C10_UnSeulBye ==
    /\ \A j, k \in 1..Len(exempts) : j # k => exempts[j] # exempts[k]
    /\ pc = "while" =>
         \A k \in 1..Len(combattants) :
            (\E j \in 1..Len(exempts) : exempts[j] = combattants[k]) => k <= 2

C10_Witness ==
    /\ pc = "retourne"
    /\ Len(exempts) = 2
    /\ vainqueur = exempts[1]

====
